---- MODULE Spec2Model ----
(***************************************************************************)
(* Model of bibval's entry matcher (src/matcher.rs): compare_entries,      *)
(* compare_authors, title_similarity, years_compatible, author_overlap,    *)
(* match_score and find_best_match.                                        *)
(*                                                                         *)
(* The functions are pure; the state machine is a call harness: Init draws *)
(* the arguments of one call, the action of the called function stores its *)
(* return value in ret.                                                    *)
(*                                                                         *)
(* f64 values are exact rationals [num, den] in lowest terms.  i32 values  *)
(* are integers in I32Min..I32Max; i32 subtraction and abs follow Rust:    *)
(* they panic when overflow checks are on (debug profile) and wrap modulo  *)
(* 2^32 when they are off (release profile).                               *)
(*                                                                         *)
(* strsim::jaro_winkler is an external crate: it is modelled as the table  *)
(* jw, an arbitrary similarity in [0,1] for every pair of distinct         *)
(* normalized strings a call compares, and 1.0 for identical strings.      *)
(* The similarities drawn sit on and next to the thresholds of matcher.rs. *)
(* crate::entry::normalize_string is a table over the strings of the model *)
(* (lowercase, punctuation stripped, split at whitespace).  The rounding   *)
(* of f64 operations is not modelled.                                      *)
(*                                                                         *)
(* The retrieval clients (src/validators/openalex.rs, openlibrary.rs,      *)
(* openreview.rs) are modelled by their search_by_title: the variable      *)
(* response is the HTTP exchange the request meets, and one action per     *)
(* client stores the Result of the call in ret.                            *)
(***************************************************************************)
EXTENDS Integers, Sequences, FiniteSets, TLC

VARIABLES
    overflow_checks,  \* build profile: TRUE = i32 overflow panics, FALSE = it wraps
    local,            \* the local / target Entry of the call
    remote,           \* the remote / candidate Entry of the call
    candidates,       \* the candidate slice of find_best_match
    jw,               \* jaro_winkler on the normalized strings of this call
    response,         \* the HTTP exchange a retrieval client's request meets
    call,             \* "init" before the call, then the name of the function called
    ret               \* the value returned by the call

vars == <<overflow_checks, local, remote, candidates, jw, response, call, ret>>

----------------------------------------------------------------------------
(* Bounds of the model *)

MaxLocalAuthors == 2
MaxRemoteAuthors == 2
MaxCandidates == 2

----------------------------------------------------------------------------
(* f64 as exact rationals *)

RECURSIVE Gcd(_, _)
Gcd(a, b) == IF b = 0 THEN a ELSE Gcd(b, a % b)

Abs(n) == IF n < 0 THEN -n ELSE n

Rat(n, d) ==
    LET g == Gcd(Abs(n), d)
    IN  [num |-> n \div g, den |-> d \div g]

RatLt(x, y) == x.num * y.den < y.num * x.den
RatGt(x, y) == RatLt(y, x)
RatGe(x, y) == ~RatLt(x, y)
RatAdd(x, y) == Rat(x.num * y.den + y.num * x.den, x.den * y.den)
RatMul(x, y) == Rat(x.num * y.num, x.den * y.den)

Zero == Rat(0, 1)
One == Rat(1, 1)

----------------------------------------------------------------------------
(* Constants of matcher.rs *)

TITLE_MATCH_THRESHOLD == Rat(85, 100)
TITLE_WARNING_THRESHOLD == Rat(90, 100)
AUTHOR_MATCH_THRESHOLD == Rat(80, 100)
MAX_YEAR_DIFFERENCE == 2
MIN_AUTHOR_OVERLAP == Rat(3, 10)
VENUE_THRESHOLD == Rat(70, 100)
LAST_NAME_THRESHOLD == Rat(9, 10)
TITLE_WEIGHT == Rat(7, 10)
AUTHOR_WEIGHT == Rat(3, 10)

----------------------------------------------------------------------------
(* Option<T>: None is the empty sequence, Some(x) the one-element sequence *)

None == <<>>
Some(x) == <<x>>
is_some(o) == Len(o) = 1
is_none(o) == Len(o) = 0
unwrap(o) == o[1]

----------------------------------------------------------------------------
(* i32 arithmetic *)

I32Max == 2147483647
I32Min == -I32Max - 1

\* a - b leaves the i32 range (only possible when the signs differ)
SubOverflows(a, b) ==
    \/ a >= 0 /\ b < 0 /\ a > I32Max + b
    \/ a < 0 /\ b >= 0 /\ a < I32Min + b

\* a - b modulo 2^32, as a signed 32-bit value
WrappingSub(a, b) ==
    IF ~SubOverflows(a, b) THEN a - b
    ELSE IF a >= 0 THEN (((a - I32Max) - 1) - b) - I32Max - 1
    ELSE (((a + I32Max) + 1) - b) + I32Max + 1

AbsOverflows(x) == x = I32Min

\* |x| modulo 2^32: i32::MIN stays i32::MIN
WrappingAbs(x) == IF x = I32Min THEN I32Min ELSE Abs(x)

----------------------------------------------------------------------------
(* years_compatible, matcher.rs:168-174.  The value of a panicked call is  *)
(* never used.                                                             *)

Returned(v) == [panicked |-> FALSE, value |-> v]
Panicked == [panicked |-> TRUE, value |-> FALSE]

years_compatible(a, b) ==
    IF is_some(a.year) /\ is_some(b.year)
    THEN LET year_a == unwrap(a.year)
             year_b == unwrap(b.year)
             diff == WrappingSub(year_a, year_b)
         IN  IF overflow_checks /\ (SubOverflows(year_a, year_b) \/ AbsOverflows(diff))
             THEN Panicked
             ELSE Returned(WrappingAbs(diff) <= MAX_YEAR_DIFFERENCE)
    ELSE Returned(TRUE)

----------------------------------------------------------------------------
(* Entry and Discrepancy (crate::entry, used by matcher.rs) *)

Entry(id, title, year, authors, doi, venue) ==
    [id |-> id, title |-> title, year |-> year, authors |-> authors,
     doi |-> doi, venue |-> venue]

Discrepancy(field, severity, local_value, remote_value, message) ==
    [field |-> field, severity |-> severity, local_value |-> local_value,
     remote_value |-> remote_value, message |-> message]

\* The strings of the model and their normalized form: lowercase, punctuation
\* stripped, split at whitespace (a normalized string is its token sequence).
NormalForm ==
    ("Deep Learning" :> <<"deep", "learning">>) @@
    ("Deep Learning." :> <<"deep", "learning">>) @@
    ("Deep Lerning" :> <<"deep", "lerning">>) @@
    ("John Smith" :> <<"john", "smith">>) @@
    ("J. Smith" :> <<"j", "smith">>) @@
    ("j. smith" :> <<"j", "smith">>) @@
    ("Amy Lee" :> <<"amy", "lee">>) @@
    ("Kim Park" :> <<"kim", "park">>) @@
    ("NeurIPS" :> <<"neurips">>) @@
    ("Proc. NeurIPS" :> <<"proc", "neurips">>)

normalize_string(s) == NormalForm[s]

\* str::to_lowercase on the DOI strings of the model
to_lowercase(s) ==
    CASE s = "10.1/ABC" -> "10.1/abc"
      [] s = "10.1/Abc" -> "10.1/abc"
      [] OTHER -> s

\* split_whitespace().last().unwrap_or("") of a normalized string
last_token(norm) == IF norm = <<>> THEN <<>> ELSE <<norm[Len(norm)]>>

\* strsim::jaro_winkler: 1.0 on identical strings, else the table's value
jaro_winkler(a, b) == IF a = b THEN One ELSE jw[<<a, b>>]

\* Iterator::max_by over keys[1..n], n >= 1: the index it returns.  The fold
\* keeps the accumulator only when it compares Greater than the next element.
RECURSIVE max_by_fold(_, _, _)
max_by_fold(keys, acc, i) ==
    IF i > Len(keys) THEN acc
    ELSE max_by_fold(keys, IF RatGt(keys[acc], keys[i]) THEN acc ELSE i, i + 1)

max_by(keys) == max_by_fold(keys, 1, 2)

----------------------------------------------------------------------------
(* Match scoring, matcher.rs:155-250 *)

title_similarity(a, b) ==
    IF is_some(a.title) /\ is_some(b.title)
    THEN jaro_winkler(normalize_string(unwrap(a.title)), normalize_string(unwrap(b.title)))
    ELSE Zero

\* the closure of author_overlap's any(): does remote_author match local_author
author_has_match(local_author, remote_author) ==
    LET local_norm == normalize_string(local_author)
        remote_norm == normalize_string(remote_author)
        full_sim == jaro_winkler(local_norm, remote_norm)
        last_name_sim == jaro_winkler(last_token(local_norm), last_token(remote_norm))
    IN  RatGe(full_sim, AUTHOR_MATCH_THRESHOLD) \/ RatGe(last_name_sim, LAST_NAME_THRESHOLD)

\* author_overlap counting a match on the full name only
author_overlap_full_name_only(l, r) ==
    IF l.authors = <<>> \/ r.authors = <<>> THEN One
    ELSE LET matches == Cardinality({i \in 1..Len(l.authors) :
                            \E j \in 1..Len(r.authors) :
                                RatGe(jaro_winkler(normalize_string(l.authors[i]),
                                                   normalize_string(r.authors[j])),
                                      AUTHOR_MATCH_THRESHOLD)})
         IN  Rat(matches, Len(l.authors))

author_overlap(l, r) ==
    IF l.authors = <<>> \/ r.authors = <<>> THEN One
    ELSE LET matches == Cardinality({i \in 1..Len(l.authors) :
                            \E j \in 1..Len(r.authors) :
                                author_has_match(l.authors[i], r.authors[j])})
         IN  Rat(matches, Len(l.authors))

\* match_score with the DOIs compared as written, case-sensitively
match_score_case_sensitive_doi(target, candidate) ==
    LET title_sim == title_similarity(target, candidate)
        compatible == years_compatible(target, candidate)
        author_sim == author_overlap(target, candidate)
        base_score == RatAdd(RatMul(title_sim, TITLE_WEIGHT), RatMul(author_sim, AUTHOR_WEIGHT))
    IN  IF RatLt(title_sim, TITLE_MATCH_THRESHOLD) THEN Returned(Zero)
        ELSE IF compatible.panicked THEN Panicked
        ELSE IF ~compatible.value THEN Returned(Zero)
        ELSE IF /\ target.authors # <<>>
                /\ candidate.authors # <<>>
                /\ RatLt(author_sim, MIN_AUTHOR_OVERLAP)
             THEN Returned(Zero)
        ELSE IF /\ is_some(target.doi)
                /\ is_some(candidate.doi)
                /\ unwrap(target.doi) = unwrap(candidate.doi)
             THEN Returned(One)
        ELSE Returned(base_score)

match_score(target, candidate) ==
    LET title_sim == title_similarity(target, candidate)
        compatible == years_compatible(target, candidate)
        author_sim == author_overlap(target, candidate)
        base_score == RatAdd(RatMul(title_sim, TITLE_WEIGHT), RatMul(author_sim, AUTHOR_WEIGHT))
    IN  IF RatLt(title_sim, TITLE_MATCH_THRESHOLD) THEN Returned(Zero)
        ELSE IF compatible.panicked THEN Panicked
        ELSE IF ~compatible.value THEN Returned(Zero)
        ELSE IF /\ target.authors # <<>>
                /\ candidate.authors # <<>>
                /\ RatLt(author_sim, MIN_AUTHOR_OVERLAP)
             THEN Returned(Zero)
        ELSE IF /\ is_some(target.doi)
                /\ is_some(candidate.doi)
                /\ to_lowercase(unwrap(target.doi)) = to_lowercase(unwrap(candidate.doi))
             THEN Returned(One)
        ELSE Returned(base_score)

\* find_best_match returns Option<(&Entry, f64)>: the reference is the index
\* of the candidate in the slice (index 0 and score Zero when None).
NoMatch == [panicked |-> FALSE, found |-> FALSE, index |-> 0, score |-> Zero]
Match(i, s) == [panicked |-> FALSE, found |-> TRUE, index |-> i, score |-> s]
BestPanicked == [panicked |-> TRUE, found |-> FALSE, index |-> 0, score |-> Zero]

\* find_best_match keeping the candidates whose score is >= 0.0
find_best_match_keeps_zero(target, cands) ==
    LET scored == [i \in 1..Len(cands) |-> match_score(target, cands[i])]
        survivors == SelectSeq([i \in 1..Len(cands) |-> i],
                               LAMBDA i : RatGe(scored[i].value, Zero))
        keys == [k \in 1..Len(survivors) |-> scored[survivors[k]].value]
    IN  IF \E i \in 1..Len(cands) : scored[i].panicked THEN BestPanicked
        ELSE IF survivors = <<>> THEN NoMatch
        ELSE LET best == survivors[max_by(keys)]
             IN  Match(best, scored[best].value)

find_best_match(target, cands) ==
    LET scored == [i \in 1..Len(cands) |-> match_score(target, cands[i])]
        survivors == SelectSeq([i \in 1..Len(cands) |-> i],
                               LAMBDA i : RatGt(scored[i].value, Zero))
        keys == [k \in 1..Len(survivors) |-> scored[survivors[k]].value]
    IN  IF \E i \in 1..Len(cands) : scored[i].panicked THEN BestPanicked
        ELSE IF survivors = <<>> THEN NoMatch
        ELSE LET best == survivors[max_by(keys)]
             IN  Match(best, scored[best].value)

----------------------------------------------------------------------------
(* Discrepancy engine, matcher.rs:17-153.  A message is its fixed text; the *)
(* values the code interpolates are those of local_value and remote_value. *)

\* rendering of "{} authors" and of i32::to_string
authors_text(n) == ToString(n) \o " authors"

\* the discrepancy of one local author, as a sequence of zero or one element
author_check(local_author, r) ==
    LET local_norm == normalize_string(local_author)
        sims == [j \in 1..Len(r) |-> jaro_winkler(local_norm, normalize_string(r[j]))]
        best == max_by(sims)
    IN  IF RatLt(sims[best], AUTHOR_MATCH_THRESHOLD)
        THEN <<Discrepancy("Authors", "Warning", local_author, r[best],
                           "Author name spelling may differ")>>
        ELSE <<>>

RECURSIVE author_checks(_, _, _)
author_checks(l, r, i) ==
    IF i > Len(l) THEN <<>>
    ELSE author_check(l[i], r) \o author_checks(l, r, i + 1)

\* compare_authors returning early only when both lists are empty (with an
\* empty remote list max_by yields None and no author is flagged)
compare_authors_skips_if_both_empty(l, r) ==
    IF l = <<>> /\ r = <<>> THEN <<>>
    ELSE (IF Len(l) # Len(r)
          THEN <<Discrepancy("Authors", "Warning", authors_text(Len(l)),
                             authors_text(Len(r)), "Author count differs")>>
          ELSE <<>>)
         \o (IF r = <<>> THEN <<>> ELSE author_checks(l, r, 1))

compare_authors(l, r) ==
    IF l = <<>> \/ r = <<>> THEN <<>>
    ELSE (IF Len(l) # Len(r)
          THEN <<Discrepancy("Authors", "Warning", authors_text(Len(l)),
                             authors_text(Len(r)), "Author count differs")>>
          ELSE <<>>)
         \o author_checks(l, r, 1)

\* compare_title with <= at the Error threshold
compare_title_inclusive(l, r) ==
    IF is_some(l.title) /\ is_some(r.title)
    THEN LET similarity == jaro_winkler(normalize_string(unwrap(l.title)),
                                        normalize_string(unwrap(r.title)))
         IN  IF ~RatGt(similarity, TITLE_MATCH_THRESHOLD)
             THEN <<Discrepancy("Title", "Error", unwrap(l.title), unwrap(r.title),
                                "Title significantly different")>>
             ELSE IF RatLt(similarity, TITLE_WARNING_THRESHOLD)
             THEN <<Discrepancy("Title", "Warning", unwrap(l.title), unwrap(r.title),
                                "Title slightly different")>>
             ELSE <<>>
    ELSE <<>>

compare_title(l, r) ==
    IF is_some(l.title) /\ is_some(r.title)
    THEN LET similarity == jaro_winkler(normalize_string(unwrap(l.title)),
                                        normalize_string(unwrap(r.title)))
         IN  IF RatLt(similarity, TITLE_MATCH_THRESHOLD)
             THEN <<Discrepancy("Title", "Error", unwrap(l.title), unwrap(r.title),
                                "Title significantly different")>>
             ELSE IF RatLt(similarity, TITLE_WARNING_THRESHOLD)
             THEN <<Discrepancy("Title", "Warning", unwrap(l.title), unwrap(r.title),
                                "Title slightly different")>>
             ELSE <<>>
    ELSE <<>>

\* compare_year with the tolerance of years_compatible
compare_year_with_tolerance(l, r) ==
    IF is_some(l.year) /\ is_some(r.year) /\ ~years_compatible(l, r).value
    THEN <<Discrepancy("Year", "Error", ToString(unwrap(l.year)),
                       ToString(unwrap(r.year)), "Year mismatch")>>
    ELSE <<>>

compare_year(l, r) ==
    IF is_some(l.year) /\ is_some(r.year) /\ unwrap(l.year) # unwrap(r.year)
    THEN <<Discrepancy("Year", "Error", ToString(unwrap(l.year)),
                       ToString(unwrap(r.year)), "Year mismatch")>>
    ELSE <<>>

\* compare_doi flagging a DOI missing on either side
compare_doi_symmetric(l, r) ==
    IF is_none(l.doi) /\ is_some(r.doi)
    THEN <<Discrepancy("Doi", "Warning", "(none)", unwrap(r.doi),
                       "Missing DOI in local entry")>>
    ELSE IF is_some(l.doi) /\ is_none(r.doi)
    THEN <<Discrepancy("Doi", "Warning", unwrap(l.doi), "(none)",
                       "Missing DOI in local entry")>>
    ELSE <<>>

compare_doi(l, r) ==
    IF is_none(l.doi) /\ is_some(r.doi)
    THEN <<Discrepancy("Doi", "Warning", "(none)", unwrap(r.doi),
                       "Missing DOI in local entry")>>
    ELSE <<>>

compare_venue(l, r) ==
    IF is_some(l.venue) /\ is_some(r.venue)
    THEN LET similarity == jaro_winkler(normalize_string(unwrap(l.venue)),
                                        normalize_string(unwrap(r.venue)))
         IN  IF RatLt(similarity, VENUE_THRESHOLD)
             THEN <<Discrepancy("Venue", "Info", unwrap(l.venue), unwrap(r.venue),
                                "Venue name differs")>>
             ELSE <<>>
    ELSE <<>>

\* compare_entries with the DOI check moved before the author comparison
compare_entries_doi_first(l, r) ==
    compare_title(l, r) \o compare_year(l, r) \o compare_doi(l, r)
        \o compare_authors(l.authors, r.authors) \o compare_venue(l, r)

compare_entries(l, r) ==
    compare_title(l, r) \o compare_year(l, r) \o compare_authors(l.authors, r.authors)
        \o compare_doi(l, r) \o compare_venue(l, r)

----------------------------------------------------------------------------
(* Arguments of the calls *)

SeqsUpTo(S, n) == UNION {[1..k -> S] : k \in 0..n}
Opt(S) == {None} \cup {Some(x) : x \in S}

I32Samples ==
    {I32Min, I32Min + 1, -2, -1, 0, 1, 2, 3, 2020, 2021, 2022, 2023, I32Max - 1, I32Max}

LocalNames == {"John Smith", "Amy Lee"}
RemoteNames == {"J. Smith", "Amy Lee"}
CompareRemoteNames == {"J. Smith", "j. smith", "Amy Lee"}

TitleLevels == {Rat(849, 1000), Rat(850, 1000), Rat(899, 1000), Rat(900, 1000)}
AuthorLevels == {Rat(700, 1000), Rat(799, 1000), Rat(800, 1000)}
LastNameLevels == {Rat(899, 1000), Rat(900, 1000)}
VenueLevels == {Rat(699, 1000), Rat(700, 1000)}

\* the pairs of distinct normalized strings a call passes to jaro_winkler
DistinctPairs(A, B) == {p \in A \X B : p[1] # p[2]}
OptNorm(o) == IF is_some(o) THEN {normalize_string(unwrap(o))} ELSE {}
NormSet(names) == {normalize_string(names[i]) : i \in DOMAIN names}
LastSet(names) == {last_token(n) : n \in NormSet(names)}

TitlePairs(l, rs) == UNION {DistinctPairs(OptNorm(l.title), OptNorm(r.title)) : r \in rs}
VenuePairs(l, rs) == UNION {DistinctPairs(OptNorm(l.venue), OptNorm(r.venue)) : r \in rs}
FullNamePairs(l, rs) == UNION {DistinctPairs(NormSet(l.authors), NormSet(r.authors)) : r \in rs}
LastNamePairs(l, rs) == UNION {DistinctPairs(LastSet(l.authors), LastSet(r.authors)) : r \in rs}

\* every jaro_winkler table for compare_entries(l, r) with title levels T,
\* full-name levels A and venue levels V
CompareTables(l, r, T, A, V) ==
    {t @@ a @@ v : t \in [TitlePairs(l, {r}) -> T],
                   a \in [FullNamePairs(l, {r}) -> A],
                   v \in [VenuePairs(l, {r}) -> V]}

\* every jaro_winkler table for match_score(l, r), r \in rs
ScoreTables(l, rs) ==
    {t @@ a @@ n : t \in [TitlePairs(l, rs) -> TitleLevels],
                   a \in [FullNamePairs(l, rs) -> {Rat(799, 1000), Rat(800, 1000)}],
                   n \in [LastNamePairs(l, rs) -> LastNameLevels]}

NoEntry == Entry("", None, None, <<>>, None, None)

----------------------------------------------------------------------------
(* The retrieval clients: validators/openalex.rs, openlibrary.rs and       *)
(* openreview.rs.  A request meets one HTTP exchange: send() fails, or a   *)
(* response with a status code and a body arrives.  A body is either not   *)
(* JSON at all or a JSON object with at most one top-level array member;   *)
(* the documents of that array carry an identifier and a title, every      *)
(* other optional member of a document being absent.                       *)

MaxResults == 2

\* Result<T, ValidatorError>
Ok(v) == <<"Ok", v>>
Err(e) == <<"Err", e>>

\* ValidatorError
RateLimited == <<"RateLimited">>
ParseError(detail) == <<"ParseError", detail>>
\* what the `?` after send().await makes of a reqwest::Error
RequestFailed == <<"reqwest::Error">>

\* reqwest::StatusCode
TOO_MANY_REQUESTS == 429
is_success(status) == status >= 200 /\ status <= 299

NotJson == [json |-> FALSE, key |-> "", items |-> <<>>]
Json(key, items) == [json |-> TRUE, key |-> key, items |-> items]

NoResponse == [sent |-> FALSE, status |-> 0, body |-> NotJson]
Sent(status, body) == [sent |-> TRUE, status |-> status, body |-> body]

Doc(id, title) == [id |-> id, title |-> title]
unwrap_or_default(o) == IF is_some(o) THEN unwrap(o) ELSE ""

\* Work::to_entry of openalex.rs, on a work without authorships, year,
\* location and doi
Work_to_entry(w) == Entry(unwrap_or_default(w.id), w.title, None, <<>>, None, None)

\* SearchDoc::to_entry of openlibrary.rs, on a doc without author_name,
\* first_publish_year and publisher
SearchDoc_to_entry(d) == Entry(unwrap_or_default(d.id), d.title, None, <<>>, None, None)

\* Note::to_entry of openreview.rs, on a note whose content holds a title
\* only, without cdate and venue
Note_to_entry(n) == Entry(unwrap_or_default(n.id), n.title, None, <<>>, None, None)

\* response.json() into SearchResponse { results: Vec<Work> }: Some(results),
\* or None for the serde error (the member `results` is required)
openalex_json(body) ==
    IF body.json /\ body.key = "results" THEN Some(body.items) ELSE None

\* response.json() into SearchResponse { docs: Vec<SearchDoc> }
openlibrary_json(body) ==
    IF body.json /\ body.key = "docs" THEN Some(body.items) ELSE None

\* response.json() into NotesResponse { notes: Option<Vec<Note>> }: the
\* member `notes` may be missing
openreview_json(body) ==
    IF body.json
    THEN Some(IF body.key = "notes" THEN Some(body.items) ELSE None)
    ELSE None

\* OpenAlexClient::search_by_title
openalex_search_by_title(resp) ==
    IF ~resp.sent THEN Err(RequestFailed)
    ELSE IF resp.status = TOO_MANY_REQUESTS THEN Err(RateLimited)
    ELSE IF ~is_success(resp.status) THEN Ok(<<>>)
    ELSE LET decoded == openalex_json(resp.body)
         IN  IF is_none(decoded)
             THEN Err(ParseError("Failed to parse OpenAlex response"))
             ELSE LET results == unwrap(decoded)
                  IN  Ok([i \in DOMAIN results |-> Work_to_entry(results[i])])

\* OpenLibraryClient::search_by_title: the status is tested for success only
openlibrary_search_by_title(resp) ==
    IF ~resp.sent THEN Err(RequestFailed)
    ELSE IF ~is_success(resp.status) THEN Ok(<<>>)
    ELSE LET decoded == openlibrary_json(resp.body)
         IN  IF is_none(decoded)
             THEN Err(ParseError("Failed to parse Open Library response"))
             ELSE LET docs == unwrap(decoded)
                  IN  Ok([i \in DOMAIN docs |-> SearchDoc_to_entry(docs[i])])

\* OpenReviewClient::search_by_title
openreview_search_by_title(resp) ==
    IF ~resp.sent THEN Err(RequestFailed)
    ELSE IF resp.status = TOO_MANY_REQUESTS THEN Err(RateLimited)
    ELSE IF ~is_success(resp.status) THEN Ok(<<>>)
    ELSE LET decoded == openreview_json(resp.body)
         IN  IF is_none(decoded)
             THEN Err(ParseError("Failed to parse OpenReview response"))
             ELSE LET notes == unwrap(decoded)
                  IN  Ok(IF is_some(notes)
                         THEN [i \in DOMAIN unwrap(notes) |-> Note_to_entry(unwrap(notes)[i])]
                         ELSE <<>>)

----------------------------------------------------------------------------
(* years_compatible called on two entries *)

InitYears ==
    /\ overflow_checks \in BOOLEAN
    /\ local \in {Entry("a", None, y, <<>>, None, None) : y \in Opt(I32Samples)}
    /\ remote \in {Entry("b", None, y, <<>>, None, None) : y \in Opt(I32Samples)}
    /\ candidates = <<>>
    /\ jw = <<>>
    /\ call = "init"
    /\ ret = <<>>
    /\ response = NoResponse

CallYearsCompatible ==
    /\ call = "init"
    /\ call' = "years_compatible"
    /\ ret' = years_compatible(local, remote)
    /\ UNCHANGED <<overflow_checks, local, remote, candidates, jw, response>>

NextYears == CallYearsCompatible

SpecYears == InitYears /\ [][NextYears]_vars

----------------------------------------------------------------------------
(* match_score called on a target and a candidate *)

\* Every combination of titles, years, DOIs and build profile with at most
\* one author on each side; and every combination of author lists with the
\* title and year filters passing.
InitScore ==
    /\ candidates = <<>>
    /\ call = "init"
    /\ ret = <<>>
    /\ response = NoResponse
    /\ \/ /\ overflow_checks \in BOOLEAN
          /\ local \in {Entry("target", t, y, a, d, None) :
                          t \in Opt({"Deep Learning"}),
                          y \in Opt({2020, I32Max}),
                          a \in SeqsUpTo(LocalNames, 1),
                          d \in Opt({"10.1/abc"})}
          /\ remote \in {Entry("candidate", t, y, a, d, None) :
                          t \in Opt({"Deep Learning.", "Deep Lerning"}),
                          y \in Opt({2022, 2023, -1}),
                          a \in SeqsUpTo(RemoteNames, 1),
                          d \in Opt({"10.1/ABC", "10.1/xyz"})}
       \/ /\ overflow_checks = FALSE
          /\ local \in {Entry("target", Some("Deep Learning"), Some(2020), a, d, None) :
                          a \in SeqsUpTo(LocalNames, MaxLocalAuthors),
                          d \in Opt({"10.1/abc"})}
          /\ remote \in {Entry("candidate", Some(t), Some(2022), a, Some("10.1/ABC"), None) :
                          t \in {"Deep Learning.", "Deep Lerning"},
                          a \in SeqsUpTo(RemoteNames, MaxRemoteAuthors)}
    /\ jw \in ScoreTables(local, {remote})

CallMatchScore ==
    /\ call = "init"
    /\ call' = "match_score"
    /\ ret' = match_score(local, remote)
    /\ UNCHANGED <<overflow_checks, local, remote, candidates, jw, response>>

NextScore == CallMatchScore

SpecScore == InitScore /\ [][NextScore]_vars

----------------------------------------------------------------------------
(* find_best_match called on a target and a slice of candidates *)

CandidateEntries ==
    {Entry("c", t, Some(y), a, d, None) :
        t \in Opt({"Deep Learning.", "Deep Lerning"}),
        y \in {2021, 2023, I32Min},
        a \in {<<>>, <<"Amy Lee">>},
        d \in Opt({"10.1/ABC"})}

\* the candidates get the ids c1, c2, ... in slice order
Numbered(cs) == [i \in 1..Len(cs) |-> [cs[i] EXCEPT !.id = "c" \o ToString(i)]]

InitBest ==
    /\ overflow_checks \in BOOLEAN
    /\ local = Entry("target", Some("Deep Learning"), Some(2020), <<"John Smith">>,
                     Some("10.1/abc"), None)
    /\ remote = NoEntry
    /\ \E cs \in SeqsUpTo(CandidateEntries, MaxCandidates) : candidates = Numbered(cs)
    /\ jw \in ScoreTables(local, {candidates[i] : i \in DOMAIN candidates})
    /\ call = "init"
    /\ ret = <<>>
    /\ response = NoResponse

CallFindBestMatch ==
    /\ call = "init"
    /\ call' = "find_best_match"
    /\ ret' = find_best_match(local, candidates)
    /\ UNCHANGED <<overflow_checks, local, remote, candidates, jw, response>>

NextBest == CallFindBestMatch

SpecBest == InitBest /\ [][NextBest]_vars

----------------------------------------------------------------------------
(* compare_entries called on a local and a remote entry *)

\* Every combination of titles, years, DOIs and venues with at most one
\* author on each side; and every combination of author lists with the other
\* fields either all absent or all discrepant.
InitCompare ==
    /\ overflow_checks = FALSE
    /\ candidates = <<>>
    /\ call = "init"
    /\ ret = <<>>
    /\ response = NoResponse
    /\ \/ /\ local \in {Entry("local", t, y, a, d, v) :
                          t \in Opt({"Deep Learning"}),
                          y \in Opt({2020, 2021}),
                          a \in SeqsUpTo(LocalNames, 1),
                          d \in Opt({"10.1/xyz"}),
                          v \in Opt({"NeurIPS"})}
          /\ remote \in {Entry("remote", t, y, a, d, v) :
                          t \in Opt({"Deep Learning.", "Deep Lerning"}),
                          y \in Opt({2020}),
                          a \in SeqsUpTo({"J. Smith"}, 1),
                          d \in Opt({"10.1/ABC"}),
                          v \in Opt({"Proc. NeurIPS"})}
          /\ jw \in CompareTables(local, remote, TitleLevels,
                                  {Rat(799, 1000), Rat(800, 1000)}, VenueLevels)
       \/ /\ local \in {Entry("local", None, None, a, None, None) :
                          a \in SeqsUpTo(LocalNames, MaxLocalAuthors)}
                   \cup {Entry("local", Some("Deep Learning"), Some(2021), a, None, Some("NeurIPS")) :
                          a \in SeqsUpTo(LocalNames, MaxLocalAuthors)}
          /\ remote \in {Entry("remote", None, None, a, None, None) :
                          a \in SeqsUpTo(CompareRemoteNames, MaxRemoteAuthors)}
                    \cup {Entry("remote", Some("Deep Lerning"), Some(2020), a, Some("10.1/ABC"),
                                Some("Proc. NeurIPS")) :
                          a \in SeqsUpTo(CompareRemoteNames, MaxRemoteAuthors)}
          /\ jw \in CompareTables(local, remote, {Rat(849, 1000)}, AuthorLevels,
                                  {Rat(699, 1000)})

CallCompareEntries ==
    /\ call = "init"
    /\ call' = "compare_entries"
    /\ ret' = compare_entries(local, remote)
    /\ UNCHANGED <<overflow_checks, local, remote, candidates, jw, response>>

NextCompare == CallCompareEntries

SpecCompare == InitCompare /\ [][NextCompare]_vars

----------------------------------------------------------------------------
(* Claims about years_compatible (SpecYears) *)

\* the mathematical |a - b| <= 2, computed without leaving the i32 range
DifferAtMost2(a, b) ==
    \E k \in -2..2 :
        /\ k <= 0 \/ b <= I32Max - k
        /\ k >= 0 \/ b >= I32Min - k
        /\ a = b + k

\* C6: years_compatible(a, b) is true if either year is absent, and when both
\* are present it is true iff the mathematical difference |year_a - year_b| is
\* at most 2, for every pair of 32-bit signed years.
C6_YearsCompatibleIsMathematicalDifference ==
    call = "years_compatible" =>
        /\ ~ret.panicked
        /\ ret.value = (\/ is_none(local.year)
                        \/ is_none(remote.year)
                        \/ DifferAtMost2(unwrap(local.year), unwrap(remote.year)))

----------------------------------------------------------------------------
(* Claims about match_score (SpecScore) *)

DoisEqualIgnoringCase(l, r) ==
    /\ is_some(l.doi)
    /\ is_some(r.doi)
    /\ to_lowercase(unwrap(l.doi)) = to_lowercase(unwrap(r.doi))

TitleFilterFires(l, r) == RatLt(title_similarity(l, r), TITLE_MATCH_THRESHOLD)

AuthorFilterFires(l, r) ==
    /\ l.authors # <<>>
    /\ r.authors # <<>>
    /\ RatLt(author_overlap(l, r), MIN_AUTHOR_OVERLAP)

Blend(l, r) ==
    RatAdd(RatMul(title_similarity(l, r), Rat(7, 10)), RatMul(author_overlap(l, r), Rat(3, 10)))

\* a hard filter as match_score evaluates it: the year filter is the value
\* years_compatible returns
HardFilterFires(l, r) ==
    \/ TitleFilterFires(l, r)
    \/ ~years_compatible(l, r).value
    \/ AuthorFilterFires(l, r)

\* a hard filter as the claims state it: the year filter is the mathematical
\* difference of the two years
YearsDifferByMoreThan2(l, r) ==
    /\ is_some(l.year)
    /\ is_some(r.year)
    /\ ~DifferAtMost2(unwrap(l.year), unwrap(r.year))

StatedHardFilterFires(l, r) ==
    \/ TitleFilterFires(l, r)
    \/ YearsDifferByMoreThan2(l, r)
    \/ AuthorFilterFires(l, r)

\* C1 as stated: match_score is exactly 1.0 whenever both DOIs are present and
\* equal ignoring case, whatever the title similarity, years and author overlap.
C1_DoiShortcutOverridesEverySignal ==
    (call = "match_score" /\ ~ret.panicked /\ DoisEqualIgnoringCase(local, remote))
        => ret.value = One

\* C1 as amended: with both DOIs present and equal ignoring case, a call that
\* returns gives 0.0 when a hard filter fires and exactly 1.0 otherwise: the
\* shortcut overrides the weighted blend, not the hard filters.
C1_DoiShortcutOverridesBlendOnly ==
    (call = "match_score" /\ ~ret.panicked /\ DoisEqualIgnoringCase(local, remote))
        => ret.value = (IF HardFilterFires(local, remote) THEN Zero ELSE One)

\* C1 witness: equal DOIs up to case, no hard filter, a blend below 1.0, and 1.0 returned
C1_Witness ==
    /\ call = "match_score"
    /\ ~ret.panicked
    /\ DoisEqualIgnoringCase(local, remote)
    /\ unwrap(local.doi) # unwrap(remote.doi)
    /\ ~HardFilterFires(local, remote)
    /\ RatLt(Blend(local, remote), One)
    /\ ret.value = One

\* C2: match_score returns 0.0 whenever title_similarity < 0.85, or both years
\* are present and differ by more than 2, or both author lists are non-empty
\* and author_overlap < 0.30; when none of these holds and the DOIs are not both
\* present and equal, it returns title_similarity * 0.7 + author_overlap * 0.3.
C2_HardFiltersThenBlend ==
    call = "match_score" =>
        /\ ~ret.panicked
        /\ StatedHardFilterFires(local, remote) => ret.value = Zero
        /\ (~StatedHardFilterFires(local, remote) /\ ~DoisEqualIgnoringCase(local, remote))
              => ret.value = Blend(local, remote)

\* the same statement restricted to calls in which the year subtraction does
\* not overflow
C2_HoldsWithoutYearOverflow ==
    (/\ call = "match_score"
     /\ ~(/\ is_some(local.year)
          /\ is_some(remote.year)
          /\ \/ SubOverflows(unwrap(local.year), unwrap(remote.year))
             \/ AbsOverflows(WrappingSub(unwrap(local.year), unwrap(remote.year)))))
        => C2_HardFiltersThenBlend

----------------------------------------------------------------------------
(* Claims about find_best_match (SpecBest) *)

ScoreOf(i) == match_score(local, candidates[i]).value

\* C3: find_best_match returns no match exactly when every candidate has
\* match_score <= 0.0 (the empty list included); otherwise it returns a
\* candidate of the list with its own match_score, that score is > 0.0, and no
\* candidate of the list has a strictly greater match_score.
C3_BestMatchIsAMaximumPositiveScore ==
    (call = "find_best_match" /\ ~ret.panicked) =>
        /\ ~ret.found <=> \A i \in 1..Len(candidates) : ~RatGt(ScoreOf(i), Zero)
        /\ ret.found =>
              /\ ret.index \in 1..Len(candidates)
              /\ ret.score = ScoreOf(ret.index)
              /\ RatGt(ret.score, Zero)
              /\ \A j \in 1..Len(candidates) : ~RatGt(ScoreOf(j), ret.score)

\* C3 witness: a match is returned while another candidate of the list has a
\* lower positive score
C3_Witness ==
    /\ call = "find_best_match"
    /\ ~ret.panicked
    /\ ret.found
    /\ \E j \in 1..Len(candidates) : RatGt(ScoreOf(j), Zero) /\ RatLt(ScoreOf(j), ret.score)

\* C4: when several candidates share the maximum positive match_score,
\* find_best_match returns the one that appears first in the sequence.
C4_FirstOfEqualMaximaWins ==
    (call = "find_best_match" /\ ~ret.panicked /\ ret.found) =>
        \A j \in 1..Len(candidates) : ScoreOf(j) = ret.score => ret.index <= j

----------------------------------------------------------------------------
(* Claims about compare_entries (SpecCompare) *)

OfField(f) == SelectSeq(ret, LAMBDA d : d.field = f)

PerAuthor == SelectSeq(ret, LAMBDA d : d.message = "Author name spelling may differ")

\* similarity of local author i and remote author j
AuthorSim(i, j) ==
    jaro_winkler(normalize_string(local.authors[i]), normalize_string(remote.authors[j]))

IsBestRemote(i, j) == \A k \in 1..Len(remote.authors) : ~RatGt(AuthorSim(i, k), AuthorSim(i, j))

FirstBestRemote(i) ==
    CHOOSE j \in 1..Len(remote.authors) :
        IsBestRemote(i, j) /\ \A k \in 1..(j - 1) : ~IsBestRemote(i, k)

\* the local authors whose highest similarity to a remote author is below 0.80
Flagged(i) == RatLt(AuthorSim(i, FirstBestRemote(i)), Rat(80, 100))

FlaggedLocal == SelectSeq([i \in 1..Len(local.authors) |-> i], Flagged)

\* C5: with both author lists non-empty, a local author yields a Warning on
\* Authors iff its highest similarity to a remote author is < 0.80, and the
\* remote author named is the first one in list order attaining that similarity.
C5_AuthorWarningNamesFirstBestRemote ==
    (call = "compare_entries" /\ local.authors # <<>> /\ remote.authors # <<>>) =>
        /\ Len(PerAuthor) = Len(FlaggedLocal)
        /\ \A k \in 1..Len(PerAuthor) :
              /\ PerAuthor[k].field = "Authors"
              /\ PerAuthor[k].severity = "Warning"
              /\ PerAuthor[k].local_value = local.authors[FlaggedLocal[k]]
              /\ PerAuthor[k].remote_value = remote.authors[FirstBestRemote(FlaggedLocal[k])]

FieldRank(f) ==
    CASE f = "Title" -> 1
      [] f = "Year" -> 2
      [] f = "Authors" -> 3
      [] f = "Doi" -> 4
      [] f = "Venue" -> 5

\* C7: the returned sequence is ordered Title, Year, Authors, Doi, Venue; in
\* the Authors block the count mismatch comes first and the per-author
\* discrepancies follow in local author list order.
C7_DiscrepanciesInFieldOrder ==
    call = "compare_entries" =>
        /\ \A i, j \in 1..Len(ret) :
              i < j => /\ FieldRank(ret[i].field) <= FieldRank(ret[j].field)
                       /\ ret[j].message # "Author count differs"
                             \/ ret[i].field # "Authors"
        /\ local.authors # <<>> /\ remote.authors # <<>> =>
              [k \in 1..Len(PerAuthor) |-> PerAuthor[k].local_value]
                  = [k \in 1..Len(FlaggedLocal) |-> local.authors[FlaggedLocal[k]]]

\* C7 witness: all five fields reported, with a count mismatch and two
\* different local authors flagged
C7_Witness ==
    /\ call = "compare_entries"
    /\ \A f \in {"Title", "Year", "Authors", "Doi", "Venue"} : OfField(f) # <<>>
    /\ \E i \in 1..Len(ret) : ret[i].message = "Author count differs"
    /\ Len(PerAuthor) >= 2
    /\ PerAuthor[1].local_value # PerAuthor[2].local_value

\* C8: at most one Title discrepancy; with both titles present and similarity
\* s, it is an Error when s < 0.85, a Warning when 0.85 <= s < 0.90 and there
\* is none when s >= 0.90.
C8_TitleDiscrepancyByThreshold ==
    call = "compare_entries" =>
        /\ Len(OfField("Title")) <= 1
        /\ is_some(local.title) /\ is_some(remote.title) =>
              LET s == title_similarity(local, remote)
              IN  /\ RatLt(s, Rat(85, 100)) =>
                        Len(OfField("Title")) = 1 /\ OfField("Title")[1].severity = "Error"
                  /\ RatGe(s, Rat(85, 100)) /\ RatLt(s, Rat(90, 100)) =>
                        Len(OfField("Title")) = 1 /\ OfField("Title")[1].severity = "Warning"
                  /\ RatGe(s, Rat(90, 100)) => OfField("Title") = <<>>

\* C8 witness: similarity exactly 0.85 reported as a Warning
C8_Witness ==
    /\ call = "compare_entries"
    /\ is_some(local.title) /\ is_some(remote.title)
    /\ title_similarity(local, remote) = Rat(85, 100)
    /\ Len(OfField("Title")) = 1
    /\ OfField("Title")[1].severity = "Warning"

\* C9: exactly one Year discrepancy, an Error, iff both years are present and
\* unequal; none when they are equal or either is absent.
C9_YearErrorIffUnequal ==
    call = "compare_entries" =>
        IF is_some(local.year) /\ is_some(remote.year) /\ unwrap(local.year) # unwrap(remote.year)
        THEN Len(OfField("Year")) = 1 /\ OfField("Year")[1].severity = "Error"
        ELSE OfField("Year") = <<>>

\* C9 witness: years 2021 and 2020 (within the +-2 tolerance of match
\* scoring), identical normalized titles: one Year Error, no Title discrepancy
C9_Witness ==
    /\ call = "compare_entries"
    /\ local.year = Some(2021) /\ remote.year = Some(2020)
    /\ is_some(local.title) /\ is_some(remote.title)
    /\ title_similarity(local, remote) = One
    /\ Len(OfField("Year")) = 1
    /\ OfField("Year")[1].severity = "Error"
    /\ OfField("Title") = <<>>

\* C10: a Doi discrepancy iff the local DOI is absent and the remote DOI is
\* present, and then exactly one, a Warning; none when the local DOI is
\* present or both are absent.
C10_DoiWarningIffLocalMissing ==
    call = "compare_entries" =>
        IF is_none(local.doi) /\ is_some(remote.doi)
        THEN Len(OfField("Doi")) = 1 /\ OfField("Doi")[1].severity = "Warning"
        ELSE OfField("Doi") = <<>>

\* C10 witness: local DOI absent, remote DOI present, one Warning carrying it
C10_Witness ==
    /\ call = "compare_entries"
    /\ is_none(local.doi) /\ is_some(remote.doi)
    /\ Len(OfField("Doi")) = 1
    /\ OfField("Doi")[1].severity = "Warning"
    /\ OfField("Doi")[1].remote_value = unwrap(remote.doi)

----------------------------------------------------------------------------
(* author_overlap called on a local and a remote entry *)

InitOverlap ==
    /\ overflow_checks = FALSE
    /\ local \in {Entry("local", None, None, a, None, None) :
                    a \in SeqsUpTo(LocalNames, MaxLocalAuthors)}
    /\ remote \in {Entry("remote", None, None, a, None, None) :
                    a \in SeqsUpTo(RemoteNames \cup {"Kim Park"}, MaxRemoteAuthors)}
    /\ candidates = <<>>
    /\ jw \in ScoreTables(local, {remote})
    /\ call = "init"
    /\ ret = <<>>
    /\ response = NoResponse

CallAuthorOverlap ==
    /\ call = "init"
    /\ call' = "author_overlap"
    /\ ret' = author_overlap(local, remote)
    /\ UNCHANGED <<overflow_checks, local, remote, candidates, jw, response>>

NextOverlap == CallAuthorOverlap

SpecOverlap == InitOverlap /\ [][NextOverlap]_vars

----------------------------------------------------------------------------
(* Claims about author_overlap (SpecOverlap) *)

FullNameSim(i, j) ==
    jaro_winkler(normalize_string(local.authors[i]), normalize_string(remote.authors[j]))

LastTokenSim(i, j) ==
    jaro_winkler(last_token(normalize_string(local.authors[i])),
                 last_token(normalize_string(remote.authors[j])))

\* local author i has a match among the remote authors
LocalHasMatch(i) ==
    \E j \in 1..Len(remote.authors) :
        \/ RatGe(FullNameSim(i, j), Rat(80, 100))
        \/ RatGe(LastTokenSim(i, j), Rat(90, 100))

\* the number of local authors 1..n that have a match
RECURSIVE MatchedUpTo(_)
MatchedUpTo(n) ==
    IF n = 0 THEN 0 ELSE MatchedUpTo(n - 1) + (IF LocalHasMatch(n) THEN 1 ELSE 0)

\* C11: author_overlap is 1.0 whenever either author list is empty; otherwise
\* it is the number of local authors that have a remote author with full-name
\* similarity >= 0.80 or last-token similarity >= 0.90, divided by the number
\* of local authors: it lies in [0, 1] and is 1.0 exactly when every local
\* author has a match.
C11_AuthorOverlapIsMatchedFraction ==
    call = "author_overlap" =>
        IF local.authors = <<>> \/ remote.authors = <<>>
        THEN ret = One
        ELSE /\ ret.num * Len(local.authors) = MatchedUpTo(Len(local.authors)) * ret.den
             /\ ret.den > 0
             /\ RatGe(ret, Zero)
             /\ RatGe(One, ret)
             /\ ret = One <=> \A i \in 1..Len(local.authors) : LocalHasMatch(i)

\* C11 witness: two local authors, one matched by the last token alone (its
\* full-name similarity to every remote author is below 0.80), the other
\* unmatched, overlap 1/2
C11_Witness ==
    /\ call = "author_overlap"
    /\ Len(local.authors) = 2
    /\ remote.authors # <<>>
    /\ \E i \in 1..2 :
          /\ LocalHasMatch(i)
          /\ \A j \in 1..Len(remote.authors) : RatLt(FullNameSim(i, j), Rat(80, 100))
    /\ \E i \in 1..2 : ~LocalHasMatch(i)
    /\ ret = Rat(1, 2)

----------------------------------------------------------------------------
(* Claims about absent fields in compare_entries (SpecCompare) *)

\* an entry with no title, year, venue or authors
Bare(e) == is_none(e.title) /\ is_none(e.year) /\ is_none(e.venue) /\ e.authors = <<>>

\* C12: an absent field is never reported as a mismatch: no Title, Year or
\* Venue discrepancy when that field is absent on either side, no Authors
\* discrepancy when either author list is empty, and when one side has no
\* title, year, venue or authors nothing is reported except possibly the single
\* Doi warning.
C12_AbsentFieldsAreNotMismatches ==
    call = "compare_entries" =>
        /\ (is_none(local.title) \/ is_none(remote.title)) => OfField("Title") = <<>>
        /\ (is_none(local.year) \/ is_none(remote.year)) => OfField("Year") = <<>>
        /\ (is_none(local.venue) \/ is_none(remote.venue)) => OfField("Venue") = <<>>
        /\ (local.authors = <<>> \/ remote.authors = <<>>) => OfField("Authors") = <<>>
        /\ (Bare(local) \/ Bare(remote)) =>
              /\ Len(ret) <= 1
              /\ \A i \in 1..Len(ret) : ret[i].field = "Doi" /\ ret[i].severity = "Warning"

\* C12 witness: the local entry has no field at all, the remote entry has a
\* title, a year, a venue, authors and a DOI: only the Doi warning is returned
C12_Witness ==
    /\ call = "compare_entries"
    /\ Bare(local)
    /\ is_none(local.doi)
    /\ is_some(remote.title) /\ is_some(remote.year) /\ is_some(remote.venue)
    /\ is_some(remote.doi)
    /\ Len(remote.authors) = 2
    /\ Len(ret) = 1
    /\ ret[1].field = "Doi"

----------------------------------------------------------------------------
(* search_by_title called on each retrieval client *)

Statuses == {200, 204, 404, TOO_MANY_REQUESTS, 500, 503}
Docs == {Doc(Some("W1"), Some("Deep Learning")), Doc(None, None)}
Bodies ==
    {NotJson, Json("", <<>>)}
        \cup {Json(k, items) : k \in {"results", "docs", "notes"},
                               items \in SeqsUpTo(Docs, MaxResults)}

InitSearch ==
    /\ overflow_checks = FALSE
    /\ local = NoEntry
    /\ remote = NoEntry
    /\ candidates = <<>>
    /\ jw = <<>>
    /\ response \in {NoResponse} \cup {Sent(s, b) : s \in Statuses, b \in Bodies}
    /\ call = "init"
    /\ ret = None

CallOpenAlexSearchByTitle ==
    /\ call = "init"
    /\ call' = "OpenAlex"
    /\ ret' = openalex_search_by_title(response)
    /\ UNCHANGED <<overflow_checks, local, remote, candidates, jw, response>>

CallOpenLibrarySearchByTitle ==
    /\ call = "init"
    /\ call' = "Open Library"
    /\ ret' = openlibrary_search_by_title(response)
    /\ UNCHANGED <<overflow_checks, local, remote, candidates, jw, response>>

CallOpenReviewSearchByTitle ==
    /\ call = "init"
    /\ call' = "OpenReview"
    /\ ret' = openreview_search_by_title(response)
    /\ UNCHANGED <<overflow_checks, local, remote, candidates, jw, response>>

NextSearch ==
    \/ CallOpenAlexSearchByTitle
    \/ CallOpenLibrarySearchByTitle
    \/ CallOpenReviewSearchByTitle

SpecSearch == InitSearch /\ [][NextSearch]_vars

Searched == call \in {"OpenAlex", "Open Library", "OpenReview"}
Throttled == response.sent /\ response.status = TOO_MANY_REQUESTS
Decoded ==
    CASE call = "OpenAlex" -> is_some(openalex_json(response.body))
      [] call = "Open Library" -> is_some(openlibrary_json(response.body))
      [] call = "OpenReview" -> is_some(openreview_json(response.body))
FailsWith(kind) == ret[1] = "Err" /\ ret[2][1] = kind
ReturnsEmpty == ret[1] = "Ok" /\ Len(ret[2]) = 0

\* C13: on every retrieval client (OpenAlex, Open Library, OpenReview),
\* search_by_title fails with RateLimited when the response is HTTP 429,
\* fails with ParseError when a successful response cannot be decoded, and
\* returns an empty sequence for any other non-success status; a throttled
\* request is never returned as an empty result.
C13_SearchByTitleClassifiesResponses ==
    (Searched /\ response.sent) =>
        /\ Throttled => FailsWith("RateLimited")
        /\ (is_success(response.status) /\ ~Decoded) => FailsWith("ParseError")
        /\ (~is_success(response.status) /\ ~Throttled) => ReturnsEmpty
        /\ Throttled => ~ReturnsEmpty

====
